---- MODULE Spec2Model ----
(***************************************************************************)
(* Model of the mint page of shramp-nft, src/src/App.tsx (second           *)
(* iteration of the component, lines 484-951): the React state of App,     *)
(* the asynchronous operations refreshContractData, connectWallet          *)
(* (with ensureMonadNetwork) and mintNFT (with attemptMint), the           *)
(* accountsChanged subscription, the quantity controls, and the chain      *)
(* (contract) and wallet they talk to.                                     *)
(*                                                                         *)
(* Every `await` of the source is one action: the step at which the        *)
(* awaited call returns (with a value read from the chain at that          *)
(* moment, or with an error) and the code runs on to its next await.       *)
(***************************************************************************)
EXTENDS Integers, Sequences, FiniteSets, TLC

(***************************************************************************)
(* Bounds and small input sets                                             *)
(***************************************************************************)

\* Number of refreshContractData runs started by effects and timers that
\* may be past their first read at the same time (the ones awaited by
\* mintNFT and connectWallet have a slot of their own).
MaxRefresh == 1

\* Number of user and wallet events in one run: accountsChanged
\* notifications, Connect Wallet clicks, quantity edits, and mint clicks
\* that pass validation.
MaxEvents == 3

\* Largest totalSupply and maxSupply for which progressPercent is computed
MaxShownSupply == 40

\* Number of freely chosen leading digits of the prices given to formatMon
LeadingDigits == 6

NoAccount == "null"
Accounts == {"0xA", "0xB"}
AccountOrNull == Accounts \cup {NoAccount}

\* What the contract holds when the page loads.
\* A sale that has just opened:
FreshSale ==
    [totalSupply |-> 0, maxSupply |-> 500, mintPrice |-> 3, maxPerWallet |-> 2,
     mintedCount |-> [a \in Accounts |-> 0],
     balanceOf |-> [a \in Accounts |-> 0]]

\* A sale near the display ceiling, with a higher cap on chain, and
\* accounts that have minted before ("0xB" has given its token away, so
\* its balance is not its minted count):
LateSale ==
    [totalSupply |-> 499, maxSupply |-> 600, mintPrice |-> 3, maxPerWallet |-> 2,
     mintedCount |-> [a \in Accounts |-> IF a = "0xA" THEN 2 ELSE 1],
     balanceOf |-> [a \in Accounts |-> IF a = "0xA" THEN 2 ELSE 0]]

\* Texts typed into the quantity input
InputTexts == {"", "-1", "0", "1", "2", "3"}

(***************************************************************************)
(* Program constants                                                       *)
(***************************************************************************)

DisplayCeiling == 500
InitialMaxSupply == 500
InitialMaxPerWallet == 2
RateLimitCode == -32603
UnrecognizedChainCode == 4902
BackoffBaseMs == 500
RetryGate == 3
WeiDecimals == 18
ShownDecimals == 4

(***************************************************************************)
(* Errors thrown by the wallet / RPC: {code?, shortMessage?, message?}.    *)
(* An absent field is modelled as code 0 / the empty string (both are      *)
(* falsy in the `||` chains of the source).                                *)
(***************************************************************************)

Err(c, s, m) == [code |-> c, shortMessage |-> s, message |-> m]

ErrMissingRevert ==
    Err(0, "missing revert data",
        "missing revert data (action=estimateGas, code=CALL_EXCEPTION)")
ErrSoldOut ==
    Err(0, "execution reverted: Sold out",
        "execution reverted: Sold out (action=estimateGas, code=CALL_EXCEPTION)")
ErrEstimate == Err(0, "", "cannot estimateGas; transaction may fail")
ErrBare == Err(0, "", "")
ErrRateLimited == Err(RateLimitCode, "", "Request is being rate limited")
ErrInternal == Err(RateLimitCode, "", "Internal JSON-RPC error")
ErrRateOtherCode == Err(429, "", "rate limit exceeded")
ErrRejected == Err(4001, "user rejected", "user rejected action")
ErrUnknownChain == Err(UnrecognizedChainCode, "", "Unrecognized chain ID 0x279F")
ErrUnknownChainMsg == Err(0, "", "Unrecognized chain ID 0x279F")
ErrChainNotAdded == Err(UnrecognizedChainCode, "", "Chain not added")

Errors ==
    {ErrMissingRevert, ErrSoldOut, ErrEstimate, ErrBare, ErrRateLimited,
     ErrInternal, ErrRateOtherCode}

SwitchErrors ==
    {ErrUnknownChain, ErrUnknownChainMsg, ErrChainNotAdded, ErrRejected, ErrBare}

\* /missing revert data|CALL_EXCEPTION|estimateGas/i over the texts above
BenignPattern(msg) ==
    msg \in {"missing revert data",
             "missing revert data (action=estimateGas, code=CALL_EXCEPTION)",
             "execution reverted: Sold out (action=estimateGas, code=CALL_EXCEPTION)",
             "cannot estimateGas; transaction may fail"}

\* /rate limit|rate limited|Request is being rate limited/i
RateLimitPattern(msg) ==
    msg \in {"Request is being rate limited", "rate limit exceeded"}

\* /Unrecognized chain ID/i
UnrecognizedChainPattern(msg) ==
    msg \in {"Unrecognized chain ID 0x279F"}

Min(a, b) == IF a < b THEN a ELSE b
Max(a, b) == IF a > b THEN a ELSE b

RECURSIVE Pow2(_)
Pow2(n) == IF n = 0 THEN 1 ELSE 2 * Pow2(n - 1)

\* Math.round of a non-negative quotient a / b
RoundDiv(a, b) == (2 * a + b) \div (2 * b)

(***************************************************************************)
(* State                                                                   *)
(***************************************************************************)

VARIABLES
    hasEthereum,          \* window.ethereum is present
    isConfigured,         \* CONTRACT_ADDRESS is set
    account,              \* useState: account
    minting,              \* useState: minting
    totalSupply,          \* useState: totalSupply
    maxSupply,            \* useState: maxSupply
    mintPriceWei,         \* useState: mintPriceWei (the decimal text of an integer)
    status,               \* useState: status
    mintQuantity,         \* useState: mintQuantity
    userMintedCount,      \* useState: userMintedCount
    contractMaxPerWallet, \* useState: contractMaxPerWallet
    alertMsg,             \* the text of the alert() dialog on screen ("": none)
    chain,                \* the deployed contract's storage
    mint,                 \* the running (or last) mintNFT call; caught: the error
                          \* its last step caught (<<>>: none); failedAt: the
                          \* await that threw it when the call ended Failed
    connect,              \* the running (or last) connectWallet call
    refresh,              \* refreshContractData runs past their first read
    pendingRefresh,       \* closures (by captured account) of runs awaiting their first read
    handlers,             \* accountsChanged listeners, by the account their closure captured
    events,               \* number of user and wallet events so far
    render                \* a value computed while rendering: the function, its
                          \* arguments and (once computed) its result

snapshot == <<totalSupply, maxSupply, mintPriceWei, contractMaxPerWallet, userMintedCount>>
env == <<hasEthereum, isConfigured>>
vars ==
    <<hasEthereum, isConfigured, account, minting, totalSupply, maxSupply,
      mintPriceWei, status, mintQuantity, userMintedCount, contractMaxPerWallet,
      alertMsg, chain, mint, connect, refresh, pendingRefresh, handlers,
      events, render>>

(***************************************************************************)
(* The contract (the collaborator behind contractABI)                      *)
(***************************************************************************)

\* mint(quantity) {value}: the caps and the price the contract enforces
ContractAdmits(signer, quantity, value) ==
    /\ quantity >= 1
    /\ chain.totalSupply + quantity <= chain.maxSupply
    /\ chain.mintedCount[signer] + quantity <= chain.maxPerWallet
    /\ value >= chain.mintPrice * quantity

ChainAfterMint(signer, quantity) ==
    [chain EXCEPT !.totalSupply = @ + quantity,
                  !.mintedCount[signer] = @ + quantity,
                  !.balanceOf[signer] = @ + quantity]

(***************************************************************************)
(* refreshContractData                                                     *)
(***************************************************************************)

\* Number(x) of a BigInt: exact below 2^53, which covers every value here
Number(x) == x

IdleTask == [pc |-> "idle", acct |-> NoAccount, supply |-> 0, max |-> 0, price |-> 0]

\* Variant: a refreshContractData that returns at once
StartRefreshNever(a) == IdleTask

\* Variant: a getContract that does not look at the contract address
StartRefreshUnconfigured(a) ==
    IF ~hasEthereum THEN IdleTask
    ELSE [IdleTask EXCEPT !.pc = "totalSupply", !.acct = a]

\* The call refreshContractData() of a closure that captured account a, up
\* to its first await: it returns at once without a provider, and
\* getContract throws (caught, logged) without a contract address.
StartRefresh(a) ==
    IF ~hasEthereum THEN IdleTask
    ELSE IF ~isConfigured THEN IdleTask
    ELSE [IdleTask EXCEPT !.pc = "totalSupply", !.acct = a]

\* The run after the read it awaits returned (ok) or threw (~ok)
TaskNext(t, ok) ==
    CASE t.pc = "totalSupply" ->
            IF ok THEN [t EXCEPT !.pc = "maxSupply", !.supply = chain.totalSupply]
            ELSE IdleTask
      [] t.pc = "maxSupply" ->
            IF ok THEN [t EXCEPT !.pc = "mintPrice", !.max = chain.maxSupply]
            ELSE IdleTask
      [] t.pc = "mintPrice" ->
            IF ok THEN [t EXCEPT !.pc = "maxPerWallet", !.price = chain.mintPrice]
            ELSE IdleTask
      [] t.pc = "maxPerWallet" ->
            IF ok /\ t.acct # NoAccount
            THEN [IdleTask EXCEPT !.pc = "mintedCount", !.acct = t.acct]
            ELSE IdleTask
      [] t.pc = "mintedCount" ->
            IF ok THEN IdleTask
            ELSE [t EXCEPT !.pc = "balanceOf"]
      [] OTHER -> IdleTask

\* One step of a run.  The reads of totalSupply, maxSupply and mintPrice,
\* which write nothing, are taken to return back to back in one step (or
\* one of them throws, which ends the run); every later await is a step of
\* its own.
TaskStep(t, ok) ==
    IF t.pc = "totalSupply"
    THEN IF ok THEN TaskNext(TaskNext(TaskNext(t, TRUE), TRUE), TRUE) ELSE IdleTask
    ELSE TaskNext(t, ok)

\* Variant: the contract's maxSupply stored as read
ClampMaxSupplyNot(max) == Number(max)

\* Math.min(Number(max), 500)
ClampMaxSupply(max) == Min(Number(max), DisplayCeiling)

\* Variant: a refresh that never writes userMintedCount
MintedCountKept(t, ok) == userMintedCount

\* Variant: the balance is read first, and the last value is kept when
\* both reads throw
MintedCountBalanceFirst(t, ok) ==
    CASE t.pc = "mintedCount" /\ ok -> Number(chain.balanceOf[t.acct])
      [] t.pc = "balanceOf" /\ ok -> Number(chain.mintedCount[t.acct])
      [] OTHER -> userMintedCount

\* userMintedCount after the step
MintedCountAfter(t, ok) ==
    CASE t.pc = "mintedCount" /\ ok -> Number(chain.mintedCount[t.acct])
      [] t.pc = "balanceOf" /\ ok -> Number(chain.balanceOf[t.acct])
      [] t.pc = "balanceOf" /\ ~ok -> 0
      [] OTHER -> userMintedCount

\* Variant: the values read so far are stored even when the read of
\* maxPerWallet throws
RefreshWritesPartial(t, ok) ==
    /\ IF t.pc = "maxPerWallet"
       THEN /\ totalSupply' = Number(t.supply)
            /\ maxSupply' = ClampMaxSupply(t.max)
            /\ mintPriceWei' = t.price
            /\ contractMaxPerWallet' =
                   IF ok THEN Number(chain.maxPerWallet) ELSE contractMaxPerWallet
       ELSE UNCHANGED <<totalSupply, maxSupply, mintPriceWei, contractMaxPerWallet>>
    /\ userMintedCount' = MintedCountAfter(t, ok)

\* The setState calls of the step
RefreshWrites(t, ok) ==
    /\ IF t.pc = "maxPerWallet" /\ ok
       THEN /\ totalSupply' = Number(t.supply)
            /\ maxSupply' = ClampMaxSupply(t.max)
            /\ mintPriceWei' = t.price
            /\ contractMaxPerWallet' = Number(chain.maxPerWallet)
       ELSE UNCHANGED <<totalSupply, maxSupply, mintPriceWei, contractMaxPerWallet>>
    /\ userMintedCount' = MintedCountAfter(t, ok)

RefreshSlots == 1 .. MaxRefresh
FreeSlots == {i \in RefreshSlots : refresh[i].pc = "idle"}
LowestFree == CHOOSE i \in FreeSlots : \A j \in FreeSlots : i <= j

\* alert() blocks the page's event loop until the dialog is dismissed
NoDialog == alertMsg = ""

\* A run started by the effect or by an accountsChanged timer: its first
\* reads return.
RefreshFirstRead ==
    \E a \in pendingRefresh, ok \in BOOLEAN :
        /\ NoDialog
        /\ pendingRefresh' = pendingRefresh \ {a}
        /\ IF ok
           THEN /\ FreeSlots # {}
                /\ refresh' = [refresh EXCEPT
                       ![LowestFree] = TaskStep(StartRefresh(a), TRUE)]
           ELSE UNCHANGED refresh
        /\ UNCHANGED <<env, render, events, account, minting, snapshot, status, mintQuantity,
                       alertMsg, chain, mint, connect, handlers>>

\* The read awaited by run i returns (ok) or throws (~ok)
RefreshReadAt(i, ok) ==
    /\ NoDialog
    /\ refresh[i].pc # "idle"
    /\ refresh' = [refresh EXCEPT ![i] = TaskStep(refresh[i], ok)]
    /\ RefreshWrites(refresh[i], ok)
    /\ UNCHANGED <<env, render, events, account, minting, status, mintQuantity, alertMsg,
                   chain, mint, connect, pendingRefresh, handlers>>

\* One of its later reads returns
RefreshRead == \E i \in RefreshSlots, ok \in BOOLEAN : RefreshReadAt(i, ok)

(***************************************************************************)
(* mintNFT                                                                 *)
(***************************************************************************)

\* The accounts the wallet has shown to the page so far (each one made the
\* effect register a listener), and the ones it may show next: accounts
\* are shown in the order "0xA", "0xB".
KnownAccounts == handlers \ {NoAccount}
NewAccounts ==
    IF "0xA" \notin KnownAccounts THEN {"0xA"} ELSE Accounts \ KnownAccounts
WalletAccounts == KnownAccounts \cup NewAccounts

\* a || b of two texts
OrElse(a, b) == IF a # "" THEN a ELSE b

ConfigError ==
    Err(0, "", "VITE_CONTRACT_ADDRESS is not set. Configure it in your Vercel env.")

\* Math.max(0, contractMaxPerWallet - userMintedCount)
RemainingAllowance == Max(0, contractMaxPerWallet - userMintedCount)

\* Math.max(0, maxSupply - totalSupply)
RemainingSupply == Max(0, maxSupply - totalSupply)

\* Variant: a mint button that stays enabled while a mint is running
MintDisabledWhenExhausted ==
    \/ userMintedCount >= contractMaxPerWallet
    \/ contractMaxPerWallet - userMintedCount <= 0

\* The disabled attribute of the mint button
MintDisabled ==
    \/ minting
    \/ userMintedCount >= contractMaxPerWallet
    \/ contractMaxPerWallet - userMintedCount <= 0

QuantityMustBe(n) == "Quantity must be 1-" \o ToString(n)
OnlyLeft(n) == "Only " \o ToString(n) \o " left in supply"
YouCanOnlyMint(n, minted) ==
    "You can only mint " \o ToString(n) \o " more NFT"
        \o (IF n = 1 THEN "" ELSE "s")
        \o ". You've already minted " \o ToString(minted) \o "."

\* Variant: the checks without the one against the remaining supply
MintValidationNoSupplyCheck ==
    IF ~hasEthereum
        THEN [kind |-> "alert", text |-> "Install MetaMask"]
    ELSE IF RemainingAllowance <= 0
        THEN [kind |-> "status", text |-> "Max per wallet reached"]
    ELSE IF mintQuantity < 1 \/ mintQuantity > RemainingAllowance
        THEN [kind |-> "alert", text |-> QuantityMustBe(RemainingAllowance)]
    ELSE [kind |-> "pass", text |-> ""]

\* The checks mintNFT makes before setMinting(true): what it reports, or
\* "pass".  kind: "alert" | "status" | "pass".
MintValidation ==
    IF ~hasEthereum
        THEN [kind |-> "alert", text |-> "Install MetaMask"]
    ELSE IF RemainingAllowance <= 0
        THEN [kind |-> "status", text |-> "Max per wallet reached"]
    ELSE IF mintQuantity < 1 \/ mintQuantity > RemainingAllowance
        THEN [kind |-> "alert", text |-> QuantityMustBe(RemainingAllowance)]
    ELSE IF mintQuantity > RemainingSupply
        THEN [kind |-> "alert", text |-> OnlyLeft(RemainingSupply)]
    ELSE IF userMintedCount + mintQuantity > contractMaxPerWallet
        THEN [kind |-> "alert",
              text |-> YouCanOnlyMint(RemainingAllowance, userMintedCount)]
    ELSE [kind |-> "pass", text |-> ""]

IdleMint ==
    [pc |-> "idle", quantity |-> 0, acct |-> NoAccount, signer |-> NoAccount,
     totalPrice |-> 0, attempt |-> 0, simulations |-> 0, submissions |-> 0,
     accepted |-> 0, waits |-> <<>>, caught |-> <<>>, outcome |-> "none",
     failedAt |-> "none", task |-> IdleTask]

\* A click on the mint button (rendered for a connected account, and not
\* disabled): mintNFT up to its first await.
MintNFTClick ==
    /\ NoDialog
    /\ account # NoAccount
    /\ ~MintDisabled
    /\ MintValidation.kind = "pass" => events < MaxEvents
    /\ events' = IF MintValidation.kind = "pass" THEN events + 1 ELSE events
    /\ LET v == MintValidation IN
       /\ alertMsg' = IF v.kind = "alert" THEN v.text ELSE alertMsg
       /\ status' = CASE v.kind = "status" -> v.text
                      [] v.kind = "pass" -> "Preparing transaction..."
                      [] OTHER -> status
       /\ minting' = IF v.kind = "pass" THEN TRUE ELSE minting
       /\ mint' = IF v.kind = "pass"
                  THEN [IdleMint EXCEPT !.pc = "getSigner",
                                        !.quantity = mintQuantity,
                                        !.acct = account]
                  ELSE mint
    /\ UNCHANGED <<env, account, snapshot, mintQuantity, chain, connect,
                   refresh, pendingRefresh, handlers>>

MintNFT == MintNFTClick /\ UNCHANGED render

\* BigInt(mintPriceWei) * BigInt(mintQuantity), the amount on the mint button
MintLabelAmount == mintPriceWei * mintQuantity

\* The same click, with the amount the button showed at that moment kept
MintNFTLabelled ==
    /\ MintNFTClick
    /\ render' = [fn |-> "mintLabel", args |-> <<mintPriceWei, mintQuantity>>,
                  out |-> <<MintLabelAmount>>]

\* The contract's owner doubles the mint price (once)
SetMintPrice ==
    /\ NoDialog
    /\ events < MaxEvents
    /\ events' = events + 1
    /\ chain.mintPrice = LateSale.mintPrice
    /\ chain' = [chain EXCEPT !.mintPrice = 2 * @]
    /\ UNCHANGED <<env, render, account, minting, snapshot, status, mintQuantity,
                   alertMsg, mint, connect, refresh, pendingRefresh, handlers>>

\* catch (e) { setStatus(error?.message || "Mint failed") } finally { setMinting(false) }
OuterCatchStatus(e) == OrElse(e.message, "Mint failed")

MintFailed(e) ==
    /\ status' = OuterCatchStatus(e)
    /\ minting' = FALSE
    /\ mint' = [IdleMint EXCEPT !.outcome = "Failed", !.caught = <<e>>,
                                !.failedAt = mint.pc]

\* provider.getSigner() returns; getContract(signer); contract.mintPrice() is called
MintGetSigner ==
    /\ NoDialog
    /\ mint.pc = "getSigner"
    /\ \/ \E s \in KnownAccounts :
            /\ account \in {s, NoAccount}
            /\ IF isConfigured
               THEN /\ mint' = [mint EXCEPT !.pc = "mintPrice", !.signer = s,
                                            !.caught = <<>>]
                    /\ UNCHANGED <<status, minting>>
               ELSE MintFailed(ConfigError)
       \/ \E e \in Errors : MintFailed(e)
    /\ UNCHANGED <<env, render, events, account, snapshot, mintQuantity, alertMsg, chain,
                   connect, refresh, pendingRefresh, handlers>>

\* Variant: the price of one token, whatever the quantity
TotalPriceOfOne(price, quantity) == price

\* price * BigInt(mintQuantity)
TotalPrice(price, quantity) == price * quantity

\* contract.mintPrice() returns; staticCall is issued
MintPrice ==
    /\ NoDialog
    /\ mint.pc = "mintPrice"
    /\ \/ /\ mint' = [mint EXCEPT !.pc = "staticCall",
                         !.totalPrice = TotalPrice(chain.mintPrice, mint.quantity),
                         !.simulations = @ + 1, !.caught = <<>>]
          /\ UNCHANGED <<status, minting>>
       \/ \E e \in Errors : MintFailed(e)
    /\ UNCHANGED <<env, render, events, account, snapshot, mintQuantity, alertMsg, chain,
                   connect, refresh, pendingRefresh, handlers>>

\* se?.shortMessage || se?.message || "Simulation failed"
SimMessage(e) == OrElse(e.shortMessage, OrElse(e.message, "Simulation failed"))

\* Variant: the test made on the short message alone
BenignSimFailureShortOnly(e) == BenignPattern(e.shortMessage)

\* Variant: every simulation failure taken as benign
BenignSimFailureAlways(e) == TRUE

BenignSimFailure(e) == BenignPattern(SimMessage(e))

\* Variant: a retry that starts again from the dry-run
SubmitCallResimulating(m, attempt) ==
    IF attempt = 0
    THEN [m EXCEPT !.pc = "mint", !.attempt = attempt, !.submissions = @ + 1,
                   !.caught = <<>>]
    ELSE [m EXCEPT !.pc = "staticCall", !.attempt = attempt,
                   !.simulations = @ + 1, !.caught = <<>>]

\* attemptMint(attempt) up to its first await: mintFn(mintQuantity, {value}) is called
SubmitCall(m, attempt) ==
    [m EXCEPT !.pc = "mint", !.attempt = attempt, !.submissions = @ + 1,
              !.caught = <<>>]

\* catch (simErr) of the dry-run block
SimCatch(e) ==
    IF BenignSimFailure(e)
    THEN /\ status' = "Simulation unavailable, submitting transaction..."
         /\ mint' = [SubmitCall(mint, 0) EXCEPT !.caught = <<e>>]
         /\ UNCHANGED minting
    ELSE \* setStatus(msg); throw simErr: the outer catch sets the status again
         MintFailed(e)

\* mintFn.staticCall returns; estimateGas is issued
MintStaticCall ==
    /\ NoDialog
    /\ mint.pc = "staticCall"
    /\ \/ /\ mint' = [mint EXCEPT !.pc = "estimateGas", !.caught = <<>>]
          /\ UNCHANGED <<status, minting>>
       \/ \E e \in Errors : SimCatch(e)
    /\ UNCHANGED <<env, render, events, account, snapshot, mintQuantity, alertMsg, chain,
                   connect, refresh, pendingRefresh, handlers>>

\* mintFn.estimateGas returns; attemptMint(0) is called
MintEstimateGas ==
    /\ NoDialog
    /\ mint.pc = "estimateGas"
    /\ \/ /\ mint' = SubmitCall(mint, 0)
          /\ UNCHANGED <<status, minting>>
       \/ \E e \in Errors : SimCatch(e)
    /\ UNCHANGED <<env, render, events, account, snapshot, mintQuantity, alertMsg, chain,
                   connect, refresh, pendingRefresh, handlers>>

\* Variant: the test made on the message alone
IsRateLimitedByMessage(e) == RateLimitPattern(e.message)

\* rpcErr?.code === -32603 && typeof message === "string" && /rate limit.../i
IsRateLimited(e) == e.code = RateLimitCode /\ RateLimitPattern(e.message)

\* Variant: a gate that lets one more attempt retry
RetryAllowedThroughGate(e, attempt) == IsRateLimited(e) /\ attempt <= RetryGate

\* isRateLimited && attempt < 3
RetryAllowed(e, attempt) == IsRateLimited(e) /\ attempt < RetryGate

\* Variant: a delay that grows by 500 ms per attempt
DelayMsLinear(attempt) == BackoffBaseMs * (attempt + 1)

\* 500 * Math.pow(2, attempt)
DelayMs(attempt) == BackoffBaseMs * Pow2(attempt)

RetryStatus(delayMs) ==
    "RPC rate limited, retrying in " \o ToString(RoundDiv(delayMs, 1000)) \o "s..."

\* catch (err) of attemptMint
AttemptCatch(e) ==
    IF RetryAllowed(e, mint.attempt)
    THEN /\ status' = RetryStatus(DelayMs(mint.attempt))
         /\ mint' = [mint EXCEPT !.pc = "backoff", !.caught = <<e>>,
                                 !.waits = Append(@, DelayMs(mint.attempt))]
         /\ UNCHANGED minting
    ELSE MintFailed(e)

\* mintFn(mintQuantity, {value: totalPrice}) returns the transaction, or throws
MintSubmit ==
    /\ NoDialog
    /\ mint.pc = "mint"
    /\ \/ /\ status' = "Waiting for confirmation..."
          /\ mint' = [mint EXCEPT !.pc = "wait", !.accepted = @ + 1,
                                  !.caught = <<>>]
          /\ UNCHANGED minting
       \/ \E e \in Errors : AttemptCatch(e)
    /\ UNCHANGED <<env, render, events, account, snapshot, mintQuantity, alertMsg, chain,
                   connect, refresh, pendingRefresh, handlers>>

\* the setTimeout of the backoff fires: attemptMint(attempt + 1)
MintBackoff ==
    /\ NoDialog
    /\ mint.pc = "backoff"
    /\ mint' = SubmitCall(mint, mint.attempt + 1)
    /\ UNCHANGED <<env, render, events, account, minting, snapshot, status, mintQuantity,
                   alertMsg, chain, connect, refresh, pendingRefresh, handlers>>

MintedStatus(quantity) ==
    "Minted " \o ToString(quantity) \o " NFT"
        \o (IF quantity > 1 THEN "s" ELSE "") \o "!"

\* Variant: a run that stays at its last await
MintSettledStillRunning(m) == [m EXCEPT !.task = IdleTask]

\* Variant: a run whose end after the refresh counts as a failure
MintSettledAsFailed(m) == [IdleMint EXCEPT !.outcome = "Failed"]

\* the try block of mintNFT ran to its end; finally { setMinting(false) }
MintSettled(m) == [IdleMint EXCEPT !.outcome = "Settled"]

\* tx.wait() returns (the transaction is mined), or throws
MintWait ==
    /\ NoDialog
    /\ mint.pc = "wait"
    /\ \/ /\ ContractAdmits(mint.signer, mint.quantity, mint.totalPrice)
          /\ chain' = ChainAfterMint(mint.signer, mint.quantity)
          /\ status' = MintedStatus(mint.quantity)
          /\ LET t == StartRefresh(mint.acct) IN
             IF t.pc = "idle"
             THEN mint' = MintSettled(mint) /\ minting' = FALSE
             ELSE /\ mint' = [mint EXCEPT !.pc = "refresh", !.task = t,
                                          !.caught = <<>>]
                  /\ UNCHANGED minting
       \/ /\ \E e \in Errors : AttemptCatch(e)
          /\ UNCHANGED chain
    /\ UNCHANGED <<env, render, events, account, snapshot, mintQuantity, alertMsg,
                   connect, refresh, pendingRefresh, handlers>>

\* a read of the awaited refreshContractData() returns; when the refresh
\* ends, mintNFT ends
MintRefreshOn(ok) ==
    /\ NoDialog
    /\ mint.pc = "refresh"
    /\ RefreshWrites(mint.task, ok)
    /\ LET t == TaskStep(mint.task, ok) IN
       IF t.pc = "idle"
       THEN mint' = MintSettled(mint) /\ minting' = FALSE
       ELSE mint' = [mint EXCEPT !.task = t] /\ UNCHANGED minting
    /\ UNCHANGED <<env, render, events, account, status, mintQuantity, alertMsg, chain,
                   connect, refresh, pendingRefresh, handlers>>

MintRefresh == \E ok \in BOOLEAN : MintRefreshOn(ok)

(***************************************************************************)
(* The effect on [refreshContractData] and the accountsChanged listener    *)
(***************************************************************************)

\* refreshContractData is re-created when account changes, so the effect
\* runs again: it calls the new refreshContractData() and registers one
\* more listener (the cleanup removes none: it passes a fresh function).
EffectRefreshes(new) ==
    IF new # account /\ StartRefresh(new).pc # "idle" THEN {new} ELSE {}

EffectHandlers(new) ==
    IF new # account /\ hasEthereum THEN {new} ELSE {}

\* Variant: listeners that store the account and start no timer
TimerRefreshesNone == {}

\* setTimeout(() => refreshContractData(), 0) of every registered listener
TimerRefreshes ==
    {h \in handlers : StartRefresh(h).pc # "idle"}

\* accounts[0] || null
FirstAccount(accounts) == IF Len(accounts) = 0 THEN NoAccount ELSE accounts[1]

AccountLists ==
    {<<>>} \cup {<<a>> : a \in WalletAccounts}
           \cup {<<a, b>> : a \in WalletAccounts, b \in Accounts}

\* The wallet emits accountsChanged: every registered listener runs
AccountsChangedTo(accounts) ==
        /\ NoDialog
        /\ events < MaxEvents
        /\ events' = events + 1
        /\ handlers # {}
        /\ account' = FirstAccount(accounts)
        /\ pendingRefresh' =
               pendingRefresh \cup TimerRefreshes \cup EffectRefreshes(account')
        /\ handlers' = handlers \cup EffectHandlers(account')
        /\ UNCHANGED <<env, render, minting, snapshot, status, mintQuantity, alertMsg,
                       chain, mint, connect, refresh>>

AccountsChanged == \E accounts \in AccountLists : AccountsChangedTo(accounts)

(***************************************************************************)
(* connectWallet and ensureMonadNetwork                                    *)
(***************************************************************************)

IdleConnect ==
    [pc |-> "idle", acct |-> NoAccount, calls |-> <<>>, task |-> IdleTask]

\* catch (e) { setStatus("Failed to connect wallet") }
ConnectFailed ==
    /\ status' = "Failed to connect wallet"
    /\ connect' = [IdleConnect EXCEPT !.calls = connect.calls]

ConnectCall(c, method) == [c EXCEPT !.pc = method, !.calls = Append(@, method)]

\* A click on Connect Wallet (rendered while no account is stored)
ConnectWallet ==
    /\ NoDialog
    /\ events < MaxEvents
    /\ events' = events + 1
    /\ account = NoAccount
    /\ connect.pc = "idle"
    /\ IF ~hasEthereum
       THEN alertMsg' = "Install MetaMask" /\ UNCHANGED connect
       ELSE /\ connect' = ConnectCall([IdleConnect EXCEPT !.acct = account],
                                      "eth_chainId")
            /\ UNCHANGED alertMsg
    /\ UNCHANGED <<env, render, account, minting, snapshot, status, mintQuantity,
                   chain, mint, refresh, pendingRefresh, handlers>>

\* eth_chainId returns the target chain id (onTarget) or another one
ConnectChainIdReturns(onTarget) ==
    /\ connect' = ConnectCall(connect,
           IF onTarget THEN "eth_requestAccounts"
           ELSE "wallet_switchEthereumChain")
    /\ UNCHANGED status

\* eth_chainId returns or throws
ConnectChainId ==
    /\ NoDialog
    /\ connect.pc = "eth_chainId"
    /\ \/ \E onTarget \in BOOLEAN : ConnectChainIdReturns(onTarget)
       \/ ConnectFailed
    /\ UNCHANGED <<env, render, events, account, minting, snapshot, mintQuantity, alertMsg,
                   chain, mint, refresh, pendingRefresh, handlers>>

\* Variant: only the error code is looked at
IsUnrecognizedChainByCode(e) == e.code = UnrecognizedChainCode

\* Variant: every switch error is taken for a missing chain
IsUnrecognizedChainAlways(e) == TRUE

\* err?.code === 4902 || /Unrecognized chain ID/i.test(err.message)
IsUnrecognizedChain(e) ==
    e.code = UnrecognizedChainCode \/ UnrecognizedChainPattern(e.message)

\* catch (switchErr): add the chain, or rethrow
ConnectSwitchThrows(e) ==
    IF IsUnrecognizedChain(e)
    THEN /\ connect' = ConnectCall(connect, "wallet_addEthereumChain")
         /\ UNCHANGED status
    ELSE ConnectFailed

\* wallet_switchEthereumChain returns or throws
ConnectSwitch ==
    /\ NoDialog
    /\ connect.pc = "wallet_switchEthereumChain"
    /\ \/ /\ connect' = ConnectCall(connect, "eth_requestAccounts")
          /\ UNCHANGED status
       \/ \E e \in SwitchErrors : ConnectSwitchThrows(e)
    /\ UNCHANGED <<env, render, events, account, minting, snapshot, mintQuantity, alertMsg,
                   chain, mint, refresh, pendingRefresh, handlers>>

\* wallet_addEthereumChain returns (ok) or throws
ConnectAddChainOn(ok) ==
    IF ok
    THEN /\ connect' = ConnectCall(connect, "eth_requestAccounts")
         /\ UNCHANGED status
    ELSE ConnectFailed

ConnectAddChain ==
    /\ NoDialog
    /\ connect.pc = "wallet_addEthereumChain"
    /\ \E ok \in BOOLEAN : ConnectAddChainOn(ok)
    /\ UNCHANGED <<env, render, events, account, minting, snapshot, mintQuantity, alertMsg,
                   chain, mint, refresh, pendingRefresh, handlers>>

ConnectDone(c) == IdleConnect

\* eth_requestAccounts returns: setAccount, setStatus, await refreshContractData()
ConnectAccounts ==
    /\ NoDialog
    /\ connect.pc = "eth_requestAccounts"
    /\ \/ \E a \in WalletAccounts :
            /\ account' = a
            /\ status' = "Wallet connected"
            /\ pendingRefresh' = pendingRefresh \cup EffectRefreshes(a)
            /\ handlers' = handlers \cup EffectHandlers(a)
            /\ LET t == StartRefresh(connect.acct) IN
               connect' = IF t.pc = "idle" THEN ConnectDone(connect)
                          ELSE [connect EXCEPT !.pc = "refresh", !.task = t,
                                               !.calls = Append(@, "refresh")]
       \/ /\ ConnectFailed
          /\ UNCHANGED <<account, pendingRefresh, handlers>>
    /\ UNCHANGED <<env, render, events, minting, snapshot, mintQuantity, alertMsg, chain,
                   mint, refresh>>

\* a read of the awaited refreshContractData() returns
ConnectRefreshOn(ok) ==
    /\ NoDialog
    /\ connect.pc = "refresh"
    /\ RefreshWrites(connect.task, ok)
    /\ LET t == TaskStep(connect.task, ok) IN
       connect' = IF t.pc = "idle" THEN ConnectDone(connect)
                  ELSE [connect EXCEPT !.task = t]
    /\ UNCHANGED <<env, render, events, account, minting, status, mintQuantity, alertMsg,
                   chain, mint, refresh, pendingRefresh, handlers>>

ConnectRefresh == \E ok \in BOOLEAN : ConnectRefreshOn(ok)

(***************************************************************************)
(* The quantity controls (rendered for a connected account)                *)
(***************************************************************************)

\* Math.min(contractMaxPerWallet, contractMaxPerWallet - userMintedCount)
MaxAllowed == Min(contractMaxPerWallet, contractMaxPerWallet - userMintedCount)

\* parseInt(e.target.value) || 1
ParseIntOr1(text) ==
    CASE text = "-1" -> -1
      [] text = "1" -> 1
      [] text = "2" -> 2
      [] text = "3" -> 3
      [] OTHER -> 1

QuantityMinus ==
    /\ NoDialog
    /\ events < MaxEvents
    /\ events' = events + 1
    /\ account # NoAccount
    /\ ~(mintQuantity <= 1)
    /\ mintQuantity' = Max(1, mintQuantity - 1)
    /\ UNCHANGED <<env, render, account, minting, snapshot, status, alertMsg, chain,
                   mint, connect, refresh, pendingRefresh, handlers>>

QuantityPlus ==
    /\ NoDialog
    /\ events < MaxEvents
    /\ events' = events + 1
    /\ account # NoAccount
    /\ ~(mintQuantity >= MaxAllowed)
    /\ mintQuantity' =
           Min(contractMaxPerWallet,
               Min(contractMaxPerWallet - userMintedCount, mintQuantity + 1))
    /\ UNCHANGED <<env, render, account, minting, snapshot, status, alertMsg, chain,
                   mint, connect, refresh, pendingRefresh, handlers>>

QuantityInput ==
    \E text \in InputTexts :
        /\ NoDialog
        /\ events < MaxEvents
        /\ events' = events + 1
        /\ account # NoAccount
        /\ mintQuantity' = Min(MaxAllowed, Max(1, ParseIntOr1(text)))
        /\ UNCHANGED <<env, render, account, minting, snapshot, status, alertMsg, chain,
                       mint, connect, refresh, pendingRefresh, handlers>>

\* The user dismisses the alert() dialog; the handler that raised it returns
AlertDismissed ==
    /\ alertMsg # ""
    /\ alertMsg' = ""
    /\ UNCHANGED <<env, render, events, account, minting, snapshot, status, mintQuantity, chain,
                   mint, connect, refresh, pendingRefresh, handlers>>

(***************************************************************************)
(* Values computed while rendering: progressPercent and formatMon          *)
(***************************************************************************)

NotRendered == [fn |-> "none", args |-> <<>>, out |-> <<>>]
Rendering(fn, args) == [fn |-> fn, args |-> args, out |-> <<>>]

\* A JavaScript number: finite, or NaN
Num(n) == [kind |-> "number", n |-> n]
NaN == [kind |-> "NaN", n |-> 0]

\* The pairs <<totalSupply, maxSupply>> with totalSupply <= maxSupply <= 500
\* whose exact percentage is k + 0.5 while the double
\* (totalSupply / maxSupply) * 100 is below it (23 / 40 * 100 evaluates to
\* 57.49999999999999, 29 / 200 * 100 to 14.499999999999998)
DoubleBelowHalf ==
    {<<23, 40>>, <<46, 80>>, <<69, 120>>, <<92, 160>>, <<29, 200>>,
     <<57, 200>>, <<113, 200>>, <<115, 200>>, <<138, 240>>, <<161, 280>>,
     <<184, 320>>, <<207, 360>>, <<58, 400>>, <<114, 400>>, <<226, 400>>,
     <<230, 400>>, <<253, 440>>, <<276, 480>>}

\* Math.round((totalSupply / maxSupply) * 100) for maxSupply > 0: the
\* double is on the same side of k + 0.5 as the exact quotient, except at
\* the ties above
RoundedPercent(ts, ms) ==
    IF <<ts, ms>> \in DoubleBelowHalf
    THEN RoundDiv(100 * ts, ms) - 1
    ELSE RoundDiv(100 * ts, ms)

\* Math.min(100, Math.round((totalSupply / maxSupply) * 100))
ProgressPercent(ts, ms) ==
    IF ms = 0
    THEN IF ts = 0
         THEN NaN         \* 0 / 0 is NaN; Math.round and Math.min return NaN
         ELSE Num(100)    \* ts / 0 is Infinity; Math.min(100, Infinity)
    ELSE Num(Min(100, RoundedPercent(ts, ms)))

ShowProgress ==
    /\ render.fn = "progressPercent"
    /\ render.out = <<>>
    /\ render' = [render EXCEPT !.out = <<ProgressPercent(render.args[1], render.args[2])>>]
    /\ UNCHANGED <<env, account, minting, snapshot, status, mintQuantity,
                   alertMsg, chain, mint, connect, refresh, pendingRefresh,
                   handlers, events>>

\* A decimal text and a BigInt are modelled by their digits, most
\* significant first.
RECURSIVE StripZeros(_)
StripZeros(d) ==
    IF Len(d) > 1 /\ Head(d) = 0 THEN StripZeros(Tail(d)) ELSE d

\* BigInt(weiStr) of a decimal text (BigInt("") is 0n)
BigIntOf(weiStr) == IF weiStr = <<>> THEN <<0>> ELSE StripZeros(weiStr)

\* bn / BigInt(10 ** k)
BigDivPow10(bn, k) ==
    IF Len(bn) <= k THEN <<0>> ELSE SubSeq(bn, 1, Len(bn) - k)

\* bn % BigInt(10 ** k)
BigModPow10(bn, k) ==
    IF Len(bn) <= k THEN bn ELSE StripZeros(SubSeq(bn, Len(bn) - k + 1, Len(bn)))

\* Variant: a fraction that is not padded
PadStartNot(s, n, c) == s

\* s.padStart(n, c)
RECURSIVE PadStart(_, _, _)
PadStart(s, n, c) == IF Len(s) >= n THEN s ELSE PadStart(<<c>> \o s, n, c)

\* s.slice(from, to)
Slice(s, from, to) == SubSeq(s, from + 1, Min(to, Len(s)))

\* the text of a sequence of digits
RECURSIVE Text(_)
Text(s) == IF s = <<>> THEN "" ELSE ToString(Head(s)) \o Text(Tail(s))

\* formatMon(weiStr); BigInt() throws for no decimal text, so the catch
\* branch is not taken for a stored price
FormatMon(weiStr) ==
    LET bn == BigIntOf(weiStr)
        whole == BigDivPow10(bn, WeiDecimals)
        frac == BigModPow10(bn, WeiDecimals)
        fracStr == Slice(PadStart(frac, WeiDecimals, 0), 0, ShownDecimals)
    IN  Text(whole) \o "." \o Text(fracStr)

ShowPrice ==
    /\ render.fn = "formatMon"
    /\ render.out = <<>>
    /\ render' = [render EXCEPT !.out = <<FormatMon(render.args[1])>>]
    /\ UNCHANGED <<env, account, minting, snapshot, status, mintQuantity,
                   alertMsg, chain, mint, connect, refresh, pendingRefresh,
                   handlers, events>>

RECURSIVE Repeat(_, _)
Repeat(d, n) == IF n = 0 THEN <<>> ELSE <<d>> \o Repeat(d, n - 1)

OneToken == <<1>> \o Repeat(0, 18)
Wei12345 == <<1, 2, 3, 4, 5>> \o Repeat(0, 14)
Wei123456 == <<1, 2, 3, 4, 5, 6>> \o Repeat(0, 13)

\* price.toString() of the prices tried: every leading group of
\* LeadingDigits digits over {0, 1, 9}, followed by 13 or 14 digits that
\* are all 0 or all 9, and the three amounts above
WeiTexts ==
    {BigIntOf([i \in 1..LeadingDigits |-> lead[i]] \o Repeat(t, n)) :
         lead \in [1..LeadingDigits -> {0, 1, 9}], t \in {0, 9}, n \in {13, 14}}
    \cup {OneToken, Wei12345, Wei123456}

(***************************************************************************)
(* The specification                                                       *)
(***************************************************************************)

\* The state after the first render and its effect
InitApp ==
    /\ account = NoAccount
    /\ minting = FALSE
    /\ totalSupply = 0
    /\ maxSupply = InitialMaxSupply
    /\ mintPriceWei = 0
    /\ status = ""
    /\ mintQuantity = 1
    /\ userMintedCount = 0
    /\ contractMaxPerWallet = InitialMaxPerWallet
    /\ alertMsg = ""
    /\ mint = IdleMint
    /\ connect = IdleConnect
    /\ refresh = [i \in RefreshSlots |-> IdleTask]
    /\ pendingRefresh = IF StartRefresh(NoAccount).pc # "idle" THEN {NoAccount} ELSE {}
    /\ handlers = IF hasEthereum THEN {NoAccount} ELSE {}
    /\ events = 0

Init ==
    /\ hasEthereum \in BOOLEAN
    /\ isConfigured \in BOOLEAN
    /\ chain = LateSale
    /\ InitApp
    /\ render = NotRendered

InitFresh ==
    /\ hasEthereum \in BOOLEAN
    /\ isConfigured \in BOOLEAN
    /\ chain = FreshSale
    /\ InitApp
    /\ render = NotRendered

Next ==
    \/ RefreshFirstRead
    \/ RefreshRead
    \/ MintNFT
    \/ MintGetSigner
    \/ MintPrice
    \/ MintStaticCall
    \/ MintEstimateGas
    \/ MintSubmit
    \/ MintBackoff
    \/ MintWait
    \/ MintRefresh
    \/ AccountsChanged
    \/ ConnectWallet
    \/ ConnectChainId
    \/ ConnectSwitch
    \/ ConnectAddChain
    \/ ConnectAccounts
    \/ ConnectRefresh
    \/ QuantityMinus
    \/ QuantityPlus
    \/ QuantityInput
    \/ AlertDismissed

Spec == Init /\ [][Next]_vars

FreshSpec == InitFresh /\ [][Next]_vars

\* The values computed while rendering, each for arguments drawn from the
\* values the state can hand to it
InitView ==
    /\ hasEthereum = FALSE
    /\ isConfigured = FALSE
    /\ chain = FreshSale
    /\ InitApp
    /\ render \in
          {Rendering("progressPercent", <<ts, ms>>) :
               ts \in 0..MaxShownSupply, ms \in 0..MaxShownSupply}
          \cup {Rendering("formatMon", <<w>>) : w \in WeiTexts}

ViewNext ==
    \/ ShowProgress
    \/ ShowPrice

ViewSpec == InitView /\ [][ViewNext]_vars

\* The app on a contract whose price changes, with the amount shown on the
\* mint button recorded at each click
InitRepriced ==
    /\ hasEthereum = TRUE
    /\ isConfigured = TRUE
    /\ chain = LateSale
    /\ InitApp
    /\ render = NotRendered

NextRepriced ==
    \/ SetMintPrice
    \/ MintNFTLabelled
    \/ RefreshFirstRead
    \/ RefreshRead
    \/ MintGetSigner
    \/ MintPrice
    \/ MintStaticCall
    \/ MintEstimateGas
    \/ MintSubmit
    \/ MintBackoff
    \/ MintWait
    \/ MintRefresh
    \/ AccountsChanged
    \/ ConnectWallet
    \/ ConnectChainId
    \/ ConnectSwitch
    \/ ConnectAddChain
    \/ ConnectAccounts
    \/ ConnectRefresh
    \/ QuantityMinus
    \/ QuantityPlus
    \/ QuantityInput
    \/ AlertDismissed

RepricedSpec == InitRepriced /\ [][NextRepriced]_vars

\* The steps of a mintNFT run: the returns of the calls it awaits
MintStep ==
    \/ MintGetSigner
    \/ MintPrice
    \/ MintStaticCall
    \/ MintEstimateGas
    \/ MintSubmit
    \/ MintBackoff
    \/ MintWait
    \/ MintRefresh

\* Every call a mintNFT run awaits returns in the end
LiveSpec == Init /\ [][Next]_vars /\ WF_vars(MintStep)

(***************************************************************************)
(* Properties                                                              *)
(***************************************************************************)

MintStarts == mint' # mint /\ mint'.pc = "getSigner"
MintEnds == mint.pc # "idle" /\ mint'.pc = "idle"
NoNetworkCall == UNCHANGED <<mint, connect, refresh, pendingRefresh, chain>>

\* The alerts that report a quantity out of range
InvalidQuantityAlerts ==
    {QuantityMustBe(n) : n \in 0 .. InitialMaxPerWallet}
        \cup {OnlyLeft(n) : n \in 0 .. DisplayCeiling}
        \cup {YouCanOnlyMint(n, m) : n, m \in 0 .. InitialMaxPerWallet}

\* mintQuantity outside [1, min(remainingAllowance, remainingSupply)]
QuantityOutOfRange ==
    \/ mintQuantity < 1
    \/ mintQuantity > Min(contractMaxPerWallet - userMintedCount,
                          maxSupply - totalSupply)

\* C1: a click on the mint button with a quantity outside
\* [1, min(remainingAllowance, remainingSupply)] reports the invalid
\* quantity in an alert, issues no network call (no mint run starts, no
\* read is issued, the chain is untouched), and leaves the minting flag
\* and the snapshot as they were.
C1_InvalidQuantityRejected ==
    [][(MintNFT /\ QuantityOutOfRange) =>
            /\ alertMsg' \in InvalidQuantityAlerts
            /\ NoNetworkCall
            /\ minting' = minting
            /\ snapshot' = snapshot]_vars

\* A rejected click: the quantity exceeds what is left of the supply
C1_Witness ==
    /\ alertMsg \in InvalidQuantityAlerts
    /\ QuantityOutOfRange
    /\ mintQuantity > maxSupply - totalSupply
    /\ mint.pc = "idle"
    /\ ~minting

BackoffWaits == <<500, 1000, 2000>>

\* C2, as stated: a mint run makes at most 3 submission attempts, with at
\* most 2 backoff waits (500 ms, 1000 ms).
C2_AtMostThreeSubmissions ==
    /\ mint.submissions <= 3
    /\ Len(mint.waits) <= 2

\* C2, as the code has it: a mint run makes at most 4 submission attempts
\* (attempts 0, 1, 2 may each retry); its backoff waits are 500, 1000 and
\* 2000 ms, one before each retry; a failure of the 4th attempt ends the
\* run Failed, whatever the error, after exactly these 3 waits.
C2_AtMostFourSubmissions ==
    /\ [](/\ mint.submissions <= 4
          /\ Len(mint.waits) <= 3
          /\ mint.waits = SubSeq(BackoffWaits, 1, Len(mint.waits))
          /\ mint.pc \in {"mint", "wait"} => Len(mint.waits) = mint.submissions - 1
          /\ mint.pc = "backoff" => Len(mint.waits) = mint.submissions)
    /\ [][(/\ mint.pc \in {"mint", "wait"}
           /\ mint.submissions = 4
           /\ mint' # mint
           /\ mint'.caught # <<>>) =>
              /\ mint.waits = BackoffWaits
              /\ mint'.pc = "idle"
              /\ mint'.outcome = "Failed"
              /\ ~minting']_vars

\* The 4th submission, after three rate-limit failures and their waits
C2_Witness ==
    /\ mint.pc = "mint"
    /\ mint.submissions = 4
    /\ mint.accepted = 0
    /\ mint.waits = BackoffWaits

\* C3: at most one mint run is in flight.  The minting flag is true
\* exactly while a run is between its validation and its end; a run starts
\* only when none is in flight (the button is disabled while the flag is
\* true); and the flag is released only by the end of the run, Settled or
\* Failed.  This holds across refreshes and account changes.
C3_OneMintInFlight ==
    /\ [](minting <=> mint.pc # "idle")
    /\ [][MintStarts => (mint.pc = "idle" /\ ~minting /\ minting')]_vars
    /\ [][(minting /\ ~minting') =>
              (MintEnds /\ mint'.outcome \in {"Settled", "Failed"})]_vars

\* A run in flight while the account has changed and a refresh is running
C3_Witness ==
    /\ minting
    /\ mint.pc = "wait"
    /\ account # mint.acct
    /\ \E i \in RefreshSlots : refresh[i].pc # "idle"

\* C4: provided every call a mint run awaits returns in the end, every run
\* that has started ends, Settled or Failed, with the minting flag false:
\* a run in flight always has a step to take (no dialog or guard holds it
\* back), and it leads to the end of the run.
C4_MintTerminates ==
    /\ [](mint.pc # "idle" => ENABLED <<MintStep>>_vars)
    /\ (mint.pc # "idle") ~>
           (mint.pc = "idle" /\ ~minting /\ mint.outcome \in {"Settled", "Failed"})

\* A run that has ended after retries
C4_Witness ==
    /\ mint.pc = "idle"
    /\ ~minting
    /\ mint.outcome = "Failed"
    /\ mint.failedAt = "wait"
    /\ mint.caught = <<ErrRateLimited>>

SimulationPcs == {"staticCall", "estimateGas"}
AdvisoryStatus == "Simulation unavailable, submitting transaction..."

\* The step at which the dry-run or the gas estimate throws error e
SimulationFails ==
    /\ mint.pc \in SimulationPcs
    /\ mint' # mint
    /\ mint'.caught # <<>>

C6_FatalSimulationFailureEnds ==
    /\ [](mint.pc \in SimulationPcs => mint.submissions = 0)
    /\ [][(SimulationFails /\ ~BenignPattern(SimMessage(mint'.caught[1]))) =>
              /\ mint.submissions = 0
              /\ mint'.pc = "idle"
              /\ mint'.outcome = "Failed"
              /\ mint'.submissions = 0
              /\ ~minting']_vars

\* A run ended by a revert reported in the dry-run
C6_Witness ==
    /\ mint.pc = "idle"
    /\ mint.outcome = "Failed"
    /\ mint.failedAt = "staticCall"
    /\ mint.caught = <<ErrSoldOut>>
    /\ ~minting

\* C7, as stated: when a run ends Failed on an error that carries a short
\* message, the status it leaves is that short message.
C7_FailedStatusIsShortMessage ==
    [][(MintEnds /\ mint'.outcome = "Failed"
            /\ mint'.caught[1].shortMessage # "") =>
          status' = mint'.caught[1].shortMessage]_vars

\* The step at which a submission attempt (the send, or the wait for its
\* confirmation) throws
SubmissionFails ==
    /\ mint.pc \in {"mint", "wait"}
    /\ mint' # mint
    /\ mint'.caught # <<>>

\* C8: a submission error that is not the recognized rate-limit error
\* (code -32603 together with a rate-limit message) is terminal: no
\* backoff wait follows, no further submission is made, and the run ends
\* Failed.
C8_OtherSubmissionErrorEnds ==
    [][(/\ SubmissionFails
        /\ ~(/\ mint'.caught[1].code = RateLimitCode
             /\ RateLimitPattern(mint'.caught[1].message))) =>
            /\ mint'.pc = "idle"
            /\ mint'.outcome = "Failed"
            /\ ~minting']_vars

\* A run ended by a rate-limit message that came with another code
C8_Witness ==
    /\ mint.pc = "idle"
    /\ mint.outcome = "Failed"
    /\ mint.failedAt = "mint"
    /\ mint.caught = <<ErrRateOtherCode>>
    /\ ~minting

MintedStatuses == {MintedStatus(q) : q \in 1 .. InitialMaxPerWallet}

\* The step at which the wait for the confirmation returns
MintConfirmed ==
    /\ mint.pc = "wait"
    /\ chain'.totalSupply = chain.totalSupply + mint.quantity

\* C9, as stated: the success status is set only by the step at which the
\* transaction is confirmed; that step triggers the refresh and keeps the
\* minting flag; the run then ends Settled, from its refresh, with the
\* success status still shown.
C9_SettledShowsSuccess ==
    /\ [][(status' # status /\ status' \in MintedStatuses) => MintConfirmed]_vars
    /\ [][MintConfirmed =>
              /\ status' = MintedStatus(mint.quantity)
              /\ mint'.pc = "refresh"
              /\ mint'.task.pc = "totalSupply"
              /\ minting']_vars
    /\ [][(MintEnds /\ mint.pc = "refresh") => mint'.outcome = "Settled"]_vars
    /\ [][(MintEnds /\ mint'.outcome = "Settled") =>
              /\ mint.pc = "refresh"
              /\ ~minting'
              /\ status' = MintedStatus(mint.quantity)]_vars

ConnectStatuses == {"Wallet connected", "Failed to connect wallet"}

\* C9, as the code has it: the success status is set only by the step at
\* which the transaction is confirmed; that step triggers the refresh and
\* keeps the minting flag; the refresh of the run leaves the status alone;
\* the run then ends Settled, from its refresh, and the status shown is
\* the success status unless a connectWallet call that was still running
\* has written its own outcome over it.
C9_SettledAfterSuccessStatus ==
    /\ [][(status' # status /\ status' \in MintedStatuses) => MintConfirmed]_vars
    /\ [][MintConfirmed =>
              /\ status' = MintedStatus(mint.quantity)
              /\ mint'.pc = "refresh"
              /\ mint'.task.pc = "totalSupply"
              /\ minting']_vars
    /\ [][(mint.pc = "refresh" /\ mint' # mint) => status' = status]_vars
    /\ [][(MintEnds /\ mint.pc = "refresh") => mint'.outcome = "Settled"]_vars
    /\ [][(MintEnds /\ mint'.outcome = "Settled") =>
              /\ mint.pc = "refresh"
              /\ ~minting'
              /\ status' \in {MintedStatus(mint.quantity)} \cup ConnectStatuses]_vars

\* A run that ended Settled with its success status on screen
C9_Witness ==
    /\ mint.pc = "idle"
    /\ mint.outcome = "Settled"
    /\ status \in MintedStatuses
    /\ ~minting
    /\ chain.totalSupply > 0

\* The run of the scenario: 2 tokens, minted from the account that
\* clicked, with nothing minted before
ScenarioRun == mint.quantity = 2 /\ mint.signer = mint.acct

SharedReadPcs == {"totalSupply", "maxPerWallet"}

AllRefreshesIdle ==
    /\ pendingRefresh = {}
    /\ \A i \in RefreshSlots : refresh[i].pc = "idle"
    /\ mint.task.pc = "idle"
    /\ connect.task.pc = "idle"

\* C11, as stated: whenever a read of a refresh throws, the read of the
\* account's minted count included, the five snapshot fields keep their
\* values: neither the step of the throw nor the rest of that refresh
\* writes any of them.
C11_AnyReadFailureKeepsSnapshot ==
    [][\A i \in RefreshSlots :
          (\/ RefreshReadAt(i, FALSE)
           \/ \E ok \in BOOLEAN : refresh[i].pc = "balanceOf" /\ RefreshReadAt(i, ok))
              => snapshot' = snapshot]_vars

\* C11, as the code has it: refreshContractData never throws to its caller
\* (a mint run awaiting it ends Settled and a connect run ends without the
\* failure status, whatever read throws); without a wallet provider no
\* refresh runs and the five fields keep their initial values; and when
\* the read of totalSupply, maxSupply, mintPrice or maxPerWallet throws,
\* the refresh ends having written none of the five fields.
C11_FailedRefreshWritesNothing ==
    /\ [](~hasEthereum =>
            /\ AllRefreshesIdle
            /\ snapshot = <<0, InitialMaxSupply, 0, InitialMaxPerWallet, 0>>)
    /\ [][RefreshFirstRead => snapshot' = snapshot]_vars
    /\ [][\A i \in RefreshSlots :
            (RefreshReadAt(i, FALSE) /\ refresh[i].pc \in SharedReadPcs) =>
                (snapshot' = snapshot /\ refresh'[i].pc = "idle")]_vars
    /\ [][(MintRefreshOn(FALSE) /\ mint.task.pc \in SharedReadPcs) =>
              (snapshot' = snapshot /\ mint'.pc = "idle")]_vars
    /\ [][(ConnectRefreshOn(FALSE) /\ connect.task.pc \in SharedReadPcs) =>
              (snapshot' = snapshot /\ connect'.pc = "idle")]_vars
    /\ [][MintRefreshOn(FALSE) =>
              (status' = status /\ mint'.outcome # "Failed")]_vars
    /\ [][ConnectRefreshOn(FALSE) => status' = status]_vars

\* A mint run has ended Settled although no refresh, the one it awaited
\* included, ever got through its reads: the fields still hold their
\* initial values while the chain has moved on
C11_Witness ==
    /\ mint.outcome = "Settled"
    /\ chain.totalSupply > 0
    /\ snapshot = <<0, InitialMaxSupply, 0, InitialMaxPerWallet, 0>>

\* The step of a refresh run t, started by the effect or a timer (slot i),
\* by mintNFT or by connectWallet, at which its awaited read returns (ok)
\* or throws (~ok)
RunReads(t, ok) ==
    \/ \E i \in RefreshSlots : refresh[i] = t /\ RefreshReadAt(i, ok)
    \/ mint.task = t /\ MintRefreshOn(ok)
    \/ connect.task = t /\ ConnectRefreshOn(ok)

RunsInFlight ==
    {refresh[i] : i \in RefreshSlots} \cup {mint.task, connect.task}

SharedFields == <<totalSupply, maxSupply, mintPriceWei, contractMaxPerWallet>>

\* C12: in a refresh whose closure holds an account, once the four shared
\* reads have returned the run goes on to read mintedCount(account); the
\* stored mintedCount becomes the value of that read if it returns,
\* otherwise the value of balanceOf(account) if that returns, otherwise 0.
\* A throw of the first or of both reads does not fail the refresh: the
\* shared fields it stored stay, nothing reaches the caller (a mint run
\* awaiting it ends Settled).  A refresh without an account leaves the
\* stored mintedCount alone.
C12_MintedCountFallback ==
    [][\A t \in RunsInFlight :
        /\ (t.pc = "maxPerWallet" /\ RunReads(t, TRUE)) =>
              /\ userMintedCount' = userMintedCount
              /\ t.acct # NoAccount =>
                    \E t2 \in RunsInFlight' : t2.pc = "mintedCount" /\ t2.acct = t.acct
        /\ (t.pc = "mintedCount" /\ RunReads(t, TRUE)) =>
              /\ userMintedCount' = chain.mintedCount[t.acct]
              /\ SharedFields' = SharedFields
        /\ (t.pc = "mintedCount" /\ RunReads(t, FALSE)) =>
              /\ userMintedCount' = userMintedCount
              /\ SharedFields' = SharedFields
              /\ \E t2 \in RunsInFlight' : t2.pc = "balanceOf" /\ t2.acct = t.acct
        /\ (t.pc = "balanceOf" /\ RunReads(t, TRUE)) =>
              /\ userMintedCount' = chain.balanceOf[t.acct]
              /\ SharedFields' = SharedFields
        /\ (t.pc = "balanceOf" /\ RunReads(t, FALSE)) =>
              /\ userMintedCount' = 0
              /\ SharedFields' = SharedFields
        /\ (t.pc \in {"mintedCount", "balanceOf"} /\ t = mint.task
                /\ (MintRefreshOn(TRUE) \/ MintRefreshOn(FALSE))) =>
              /\ status' = status
              /\ mint'.outcome # "Failed"
              /\ t.pc = "balanceOf" => mint'.outcome = "Settled"]_vars

\* The stored count of "0xB" is its minted count (1, not its balance 0)
\* from an earlier refresh, and a later refresh for "0xB" is at the
\* balanceOf fallback after its mintedCount read threw
C12_Witness ==
    /\ account = "0xB"
    /\ userMintedCount = 1
    /\ chain.balanceOf["0xB"] = 0
    /\ \E t \in RunsInFlight : t.pc = "balanceOf" /\ t.acct = "0xB"

\* The wallet requests of the connectWallet run, in the order sent (kept
\* after a failed run until the next click)
WalletCalls == connect.calls

CallsWellOrdered ==
    \A k \in 1..Len(WalletCalls) :
        /\ WalletCalls[k] = "eth_chainId" <=> k = 1
        /\ WalletCalls[k] = "wallet_switchEthereumChain" => k = 2
        /\ WalletCalls[k] = "wallet_addEthereumChain" =>
              k = 3 /\ WalletCalls[2] = "wallet_switchEthereumChain"
        /\ WalletCalls[k] = "eth_requestAccounts" =>
              k > 1 /\ WalletCalls[k - 1] \in
                  {"eth_chainId", "wallet_switchEthereumChain",
                   "wallet_addEthereumChain"}
        /\ WalletCalls[k] = "refresh" =>
              k > 1 /\ WalletCalls[k - 1] = "eth_requestAccounts"

UnrecognizedChainError(e) ==
    e.code = 4902 \/ UnrecognizedChainPattern(e.message)

\* C13: in connectWallet, when eth_chainId returns another chain id the
\* next wallet request is wallet_switchEthereumChain (before any
\* eth_requestAccounts); when the switch throws with code 4902 or an
\* "Unrecognized chain ID" message the next request is
\* wallet_addEthereumChain, and when that returns the next request is
\* eth_requestAccounts; when eth_chainId returns the target chain id the
\* next request is eth_requestAccounts and the run sends neither a switch
\* nor an add-chain request.
C13_NetworkEnsuredBeforeAccounts ==
    /\ [](CallsWellOrdered)
    /\ [][(ConnectChainId /\ ConnectChainIdReturns(FALSE)) =>
              WalletCalls' = <<"eth_chainId", "wallet_switchEthereumChain">>]_vars
    /\ [][(ConnectChainId /\ ConnectChainIdReturns(TRUE)) =>
              WalletCalls' = <<"eth_chainId", "eth_requestAccounts">>]_vars
    /\ [][\A e \in SwitchErrors :
              (ConnectSwitch /\ ConnectSwitchThrows(e) /\ UnrecognizedChainError(e)) =>
                  /\ WalletCalls' = <<"eth_chainId", "wallet_switchEthereumChain",
                                     "wallet_addEthereumChain">>
                  /\ status' = status]_vars
    /\ [][(ConnectAddChain /\ ConnectAddChainOn(TRUE)) =>
              WalletCalls' = <<"eth_chainId", "wallet_switchEthereumChain",
                               "wallet_addEthereumChain", "eth_requestAccounts">>]_vars
    /\ [][(connect.pc \in {"eth_requestAccounts", "refresh"} /\ connect'.pc # "idle") =>
              \A k \in 1..Len(WalletCalls) : WalletCalls'[k] = WalletCalls[k]]_vars

\* The account request is pending after a switch that failed for a missing
\* chain and an add-chain request that returned
C13_Witness ==
    /\ connect.pc = "eth_requestAccounts"
    /\ WalletCalls = <<"eth_chainId", "wallet_switchEthereumChain",
                       "wallet_addEthereumChain", "eth_requestAccounts">>

\* C14: when wallet_switchEthereumChain throws an error that has neither
\* code 4902 nor an "Unrecognized chain ID" message, the connectWallet run
\* ends at once: its requests were eth_chainId and the switch only (no
\* add-chain, no eth_requestAccounts, no second switch), the stored account
\* is left as it was, and status is "Failed to connect wallet".
C14_OtherSwitchErrorFailsConnect ==
    [][\A e \in SwitchErrors :
          (ConnectSwitch /\ ConnectSwitchThrows(e) /\ ~UnrecognizedChainError(e)) =>
              /\ connect'.pc = "idle"
              /\ WalletCalls' = <<"eth_chainId", "wallet_switchEthereumChain">>
              /\ account' = account
              /\ status' = "Failed to connect wallet"]_vars

\* A connectWallet run has ended right after its switch request, with the
\* failure status shown and no account stored
C14_Witness ==
    /\ connect.pc = "idle"
    /\ WalletCalls = <<"eth_chainId", "wallet_switchEthereumChain">>
    /\ status = "Failed to connect wallet"
    /\ account = NoAccount

\* C15: on every accountsChanged notification, whatever the mint, connect
\* and refresh runs are doing, the stored account becomes accounts[0], or
\* null for an empty list, and refreshContractData() is triggered: the
\* timer of every registered listener queues a run of its
\* refreshContractData, and a run for the account of the notification is
\* among those queued (with a contract address configured; without one
\* refreshContractData() returns before its first read).
C15_AccountsChangedStoresAndRefreshes ==
    /\ [](hasEthereum => account \in handlers)
    /\ [][\A accounts \in AccountLists :
            AccountsChangedTo(accounts) =>
                /\ account' = IF accounts = <<>> THEN NoAccount ELSE Head(accounts)
                /\ isConfigured =>
                      /\ account' \in pendingRefresh'
                      /\ handlers \subseteq pendingRefresh'
                      /\ pendingRefresh' # {}
                /\ UNCHANGED <<mint, connect, refresh, snapshot, status>>]_vars

\* A mint is in flight for an account and the stored account is null: a
\* notification without accounts arrived during the mint, and a refresh
\* for the cleared account is queued
C15_Witness ==
    /\ mint.pc \notin {"idle", "refresh"}
    /\ mint.acct # NoAccount
    /\ account = NoAccount
    /\ NoAccount \in pendingRefresh

\* The positions of mintNFT at which a call of mintFn(mintQuantity,
\* {value: totalPrice}) is awaited (staticCall, estimateGas, the
\* submission) or about to be repeated (backoff)
MintCallPcs == {"staticCall", "estimateGas", "mint", "backoff"}

\* C16: the value computed when contract.mintPrice() returns is the price
\* read times the quantity of the click, as an exact integer product, and
\* the dry-run, the gas estimate and every submission of the run are made
\* with that quantity and that value, whatever happens to the quantity
\* field and the stored price meanwhile.
C16_ValueIsPriceTimesQuantity ==
    /\ [][(MintPrice /\ mint'.pc = "staticCall") =>
              /\ mint'.quantity = mint.quantity
              /\ mint'.totalPrice = chain.mintPrice * mint.quantity]_vars
    /\ [][(MintNFT /\ mint'.pc # "idle") => mint'.quantity = mintQuantity]_vars
    /\ [][(mint.pc \in MintCallPcs \cup {"getSigner", "mintPrice"}
             /\ mint'.pc \in MintCallPcs \cup {"mintPrice", "wait"}) =>
              mint'.quantity = mint.quantity]_vars
    /\ [][(mint.pc \in MintCallPcs /\ mint'.pc \in MintCallPcs \cup {"wait"}) =>
              mint'.totalPrice = mint.totalPrice]_vars
    /\ [][(MintWait /\ chain' # chain) =>
              /\ chain'.totalSupply = chain.totalSupply + mint.quantity
              /\ mint.totalPrice = chain.mintPrice * mint.quantity]_vars

\* After the dry-run, a second submission of two tokens is awaited with
\* twice the price attached
C16_Witness ==
    /\ mint.pc = "mint"
    /\ mint.simulations = 1
    /\ mint.attempt = 1
    /\ mint.quantity = 2
    /\ chain.mintPrice > 1
    /\ mint.totalPrice = 2 * chain.mintPrice

QuantityEdit == QuantityMinus \/ QuantityPlus \/ QuantityInput

\* C17: after every edit of the quantity (the minus button, the plus
\* button, a value typed into the field) the stored quantity q satisfies
\* 1 <= q <= min(maxPerWallet, maxPerWallet - mintedCount), for the
\* maxPerWallet and mintedCount stored at that moment.
C17_QuantityStaysInRange ==
    [][QuantityEdit => (1 <= mintQuantity' /\ mintQuantity' <= MaxAllowed')]_vars

ExactPercent(ts, ms) == Max(0, Min(100, RoundDiv(100 * ts, ms)))

\* C18: progressPercent is round(100 * totalSupply / maxSupply) clamped to
\* [0, 100]; it does not decrease when totalSupply grows with maxSupply
\* fixed; and it is a finite number in [0, 100] also for maxSupply = 0
\* (totalSupply = 0 included).
C18_ProgressPercentClampedRound ==
    (render.fn = "progressPercent" /\ render.out # <<>>) =>
        LET ts == render.args[1]
            ms == render.args[2]
            r == render.out[1]
        IN  /\ r.kind = "number"
            /\ r.n \in 0..100
            /\ ms > 0 => r.n = ExactPercent(ts, ms)
            /\ \A lower \in 0..ts :
                  /\ ProgressPercent(lower, ms).kind = "number"
                  /\ ProgressPercent(lower, ms).n <= r.n

\* Place value 10^k of the amount w
PlaceDigit(w, k) == IF k < Len(w) THEN w[Len(w) - k] ELSE 0

\* w div 10^18, in decimal
WholePart(w) ==
    IF Len(w) <= 18 THEN "0"
    ELSE Text([i \in 1..(Len(w) - 18) |-> w[i]])

\* C19: for every non-negative integer amount w of wei, formatMon(w) is
\* the decimal text of w div 10^18, a '.', and the four digits of w at the
\* places 10^17 .. 10^14 (the first four digits of w mod 10^18 written
\* with 18 digits): the digits below are cut off, never rounded.  One token
\* is shown as "1.0000", 1.2345 tokens as "1.2345" and 1.23456 tokens as
\* "1.2345".
C19_FormatMonTruncates ==
    (render.fn = "formatMon" /\ render.out # <<>>) =>
        LET w == render.args[1]
            text == render.out[1]
        IN  /\ text = WholePart(w) \o "." \o ToString(PlaceDigit(w, 17))
                          \o ToString(PlaceDigit(w, 16))
                          \o ToString(PlaceDigit(w, 15))
                          \o ToString(PlaceDigit(w, 14))
            /\ w = <<1>> \o Repeat(0, 18) => text = "1.0000"
            /\ w = <<1, 2, 3, 4, 5>> \o Repeat(0, 14) => text = "1.2345"
            /\ w = <<1, 2, 3, 4, 5, 6>> \o Repeat(0, 13) => text = "1.2345"
            /\ w = <<1, 9, 9, 9, 9, 9>> \o Repeat(9, 13) => text = "1.9999"
            /\ w = <<1>> \o Repeat(0, 14) => text = "0.0001"
            /\ w = <<9>> \o Repeat(9, 13) => text = "0.0000"

\* 1.23456 tokens have been formatted, the fifth fractional digit cut off
C19_Witness ==
    /\ render.fn = "formatMon"
    /\ render.args = <<Wei123456>>
    /\ render.out = <<"1.2345">>

\* C20: the stored maxSupply is at most 500 in every state: it is 500 at
\* the start, it changes only when the four shared reads of a refresh have
\* returned, and that step stores min(the contract's maxSupply, 500).
C20_MaxSupplyAtMostCeiling ==
    /\ maxSupply = 500
    /\ [](maxSupply <= 500)
    /\ [][\A t \in RunsInFlight :
            (t.pc = "maxPerWallet" /\ RunReads(t, TRUE)) =>
                maxSupply' = Min(chain.maxSupply, 500)]_vars
    /\ [][maxSupply' # maxSupply =>
            \E t \in RunsInFlight : t.pc = "maxPerWallet" /\ RunReads(t, TRUE)]_vars

\* A refresh has stored the supply of a contract whose maxSupply is 600,
\* and the stored maxSupply is 500
C20_Witness ==
    /\ chain.maxSupply = 600
    /\ totalSupply = chain.totalSupply
    /\ totalSupply > 0
    /\ maxSupply = 500

InitialSnapshot == <<0, InitialMaxSupply, 0, InitialMaxPerWallet, 0>>

\* Without a contract address no refresh run reaches a read, and a mint
\* run gets no further than getSigner: no read, dry-run or submission
NoContractCall ==
    /\ AllRefreshesIdle
    /\ mint.pc \in {"idle", "getSigner"}
    /\ mint.simulations = 0
    /\ mint.submissions = 0
    /\ chain = LateSale \/ chain = FreshSale

\* C21, as stated: when no contract address is configured, no contract
\* read, simulation or mint submission is ever issued, the snapshot stays
\* as it was at the start, and every mint request that passes validation
\* ends Failed with the configuration error as status and minting released.
C21_UnconfiguredIsBlocked ==
    /\ [](~isConfigured => (NoContractCall /\ snapshot = InitialSnapshot))
    /\ [][(~isConfigured /\ MintEnds) =>
              /\ mint'.outcome = "Failed"
              /\ status' = ConfigError.message
              /\ minting' = FALSE]_vars

\* C21, as the code has it: when no contract address is configured, no
\* contract read, simulation or mint submission is ever issued and the
\* snapshot stays as it was at the start; a mint request that passes
\* validation ends Failed at getSigner with minting released, and its
\* status is the configuration error when getSigner returned, and the
\* message of the error getSigner threw ("Mint failed" without one)
\* otherwise.
C21_UnconfiguredBlockedAfterSigner ==
    /\ [](~isConfigured => (NoContractCall /\ snapshot = InitialSnapshot))
    /\ [][(~isConfigured /\ MintEnds) =>
              /\ mint.pc = "getSigner"
              /\ mint'.outcome = "Failed"
              /\ minting' = FALSE
              /\ \E e \in Errors \cup {ConfigError} :
                    /\ mint'.caught = <<e>>
                    /\ status' = IF e.message # "" THEN e.message ELSE "Mint failed"
              /\ (\E s \in KnownAccounts : account \in {s, NoAccount}) =>
                    ENABLED (MintGetSigner /\ mint'.caught = <<ConfigError>>)]_vars

\* Without a contract address, a mint has ended Failed with the
\* configuration error shown and minting released
C21_Witness ==
    /\ ~isConfigured
    /\ mint.outcome = "Failed"
    /\ mint.caught = <<ConfigError>>
    /\ mint.failedAt = "getSigner"
    /\ status = ConfigError.message
    /\ ~minting

\* C22: the retry after a rate-limit failure calls mintFn again with the
\* quantity and the value of the first submission, and never the dry-run
\* or the gas estimate: a mint run enters the dry-run block at most once,
\* and only before its first submission.
C22_RetryDoesNotResimulate ==
    /\ [](/\ mint.simulations <= 1
          /\ mint.pc \in SimulationPcs => (mint.submissions = 0 /\ mint.attempt = 0)
          /\ mint.submissions > 0 => mint.simulations = 1)
    /\ [][MintBackoff =>
              /\ mint'.pc = "mint"
              /\ mint'.submissions = mint.submissions + 1
              /\ mint'.attempt = mint.attempt + 1]_vars
    /\ [][(mint.submissions > 0 /\ mint'.pc # "idle") =>
              /\ mint'.quantity = mint.quantity
              /\ mint'.totalPrice = mint.totalPrice
              /\ mint'.simulations = mint.simulations
              /\ mint'.pc \notin SimulationPcs]_vars

\* The third submission of a run that went through the dry-run once
C22_Witness ==
    /\ mint.pc = "mint"
    /\ mint.attempt = 2
    /\ mint.submissions = 3
    /\ mint.simulations = 1
    /\ Len(mint.waits) = 2

\* C23: the wait that follows the failed attempt with index k is
\* 500 * 2^k ms: the waits of a run are 500, 1000, 2000, each twice the one
\* before, and a submission after the first is made only by the timer of
\* the wait that the failure before it started.
C23_BackoffDoubles ==
    /\ [](/\ \A i \in 1..Len(mint.waits) : mint.waits[i] = 500 * Pow2(i - 1)
          /\ \A i \in 2..Len(mint.waits) : mint.waits[i] = 2 * mint.waits[i - 1]
          /\ mint.pc = "backoff" =>
                /\ Len(mint.waits) = mint.attempt + 1
                /\ mint.waits[Len(mint.waits)] = 500 * Pow2(mint.attempt))
    /\ [][(mint.pc # "backoff" /\ mint'.pc = "backoff") =>
              /\ mint.pc \in {"mint", "wait"}
              /\ mint'.attempt = mint.attempt
              /\ mint'.waits = Append(mint.waits, 500 * Pow2(mint.attempt))]_vars
    /\ [][(mint.submissions > 0 /\ mint'.submissions > mint.submissions) =>
              /\ mint.pc = "backoff"
              /\ MintBackoff
              /\ mint'.attempt = mint.attempt + 1
              /\ mint'.waits = mint.waits
              /\ Len(mint.waits) = mint'.attempt]_vars

\* The third wait of a run, 2000 ms, is running after the failure of the
\* attempt with index 2
C23_Witness ==
    /\ mint.pc = "backoff"
    /\ mint.attempt = 2
    /\ mint.waits = <<500, 1000, 2000>>

UserVisible == <<status, account, mintQuantity>>

\* C24: no step of a refreshContractData run, whether its read returns or
\* throws, changes status, the stored account or the quantity; the minting
\* flag changes at such a step only when the refresh awaited by mintNFT has
\* ended and mintNFT's finally releases it; a read that throws in the
\* post-mint refresh leaves the run Settled, never Failed, with the status
\* untouched.
C24_RefreshLeavesStatusAlone ==
    /\ [][RefreshFirstRead => UNCHANGED <<UserVisible, minting>>]_vars
    /\ [][\A t \in RunsInFlight, ok \in BOOLEAN :
            RunReads(t, ok) =>
                /\ UNCHANGED UserVisible
                /\ t # mint.task => UNCHANGED minting
                /\ t = mint.task =>
                      /\ mint'.outcome # "Failed"
                      /\ IF mint'.pc = "idle"
                         THEN minting' = FALSE /\ mint'.outcome = "Settled"
                         ELSE UNCHANGED minting]_vars
    /\ [][(MintRefreshOn(FALSE) /\ mint.task.pc \in SharedReadPcs) =>
              /\ mint'.outcome = "Settled"
              /\ UNCHANGED <<UserVisible, snapshot>>]_vars

\* A mint has ended Settled with its success status on screen although its
\* refresh failed: the stored supply is behind the contract's
C24_Witness ==
    /\ mint.outcome = "Settled"
    /\ status \in MintedStatuses
    /\ ~minting
    /\ AllRefreshesIdle
    /\ totalSupply < chain.totalSupply

\* C25: within one mint run, once mintFn has returned a transaction no
\* further transaction is submitted: a throw of tx.wait() or of the
\* post-mint refresh, also one with the rate-limit signature, does not
\* lead to a second submission.
C25_NoSubmissionAfterAcceptance ==
    /\ [](mint.accepted <= 1)
    /\ [][(mint.accepted > 0 /\ mint'.pc # "idle") =>
              mint'.submissions = mint.submissions]_vars

\* C26: once no refresh is in flight any more and an account is stored,
\* the stored mintedCount is the contract's mintedCount of that account: a
\* run started for an earlier account, or by the timer of a listener
\* registered under one, never leaves its result as the final count.
\* Stated for the step at which the last run in flight ends with its
\* mintedCount read returned.
C26_FinalMintedCountIsCurrent ==
    [][\A t \in RunsInFlight :
          (/\ t.pc = "mintedCount"
           /\ RunReads(t, TRUE)
           /\ AllRefreshesIdle'
           /\ account' # NoAccount) =>
              userMintedCount' = chain'.mintedCount[account']]_vars

\* C27: the supply check of mintNFT does not stop a mint that the figures
\* read from the contract admit: when the stored supply figures come from
\* a read (totalSupply > 0), and the quantity is at least 1, at most the
\* contract's maxSupply minus the stored totalSupply, and at most the
\* stored allowance, a click on the mint button starts the run, also when
\* the contract's maxSupply is above 500.
C27_SupplyGuardAdmitsChainSupply ==
    [][(/\ MintNFT
        /\ totalSupply > 0
        /\ mintQuantity >= 1
        /\ mintQuantity <= chain.maxSupply - totalSupply
        /\ mintQuantity <= contractMaxPerWallet - userMintedCount) =>
            MintStarts]_vars

\* C28: the value attached to a submitted mint is the amount the mint
\* button showed when it was clicked, the quantity times the stored unit
\* price, also when the contract's price changed after the last refresh.
C28_ValueIsAmountShown ==
    [][(mint'.submissions > mint.submissions) =>
          /\ render.fn = "mintLabel"
          /\ render.args[2] = mint'.quantity
          /\ mint'.totalPrice = render.out[1]]_vars

====
